---- MODULE Spec2Model ----
(***************************************************************************)
(* Message protocol and framing layer of pg_fusion (src/protocol.rs).      *)
(* A slot is a fixed-capacity byte buffer guarded by a lock; a SlotStream  *)
(* is a cursor over a locked slot.  Every message is a 6-byte header       *)
(* followed by a MessagePack-encoded payload.                              *)
(***************************************************************************)
EXTENDS Integers, Sequences, FiniteSets, TLC

\* ------------------------------------------------------------------------
\* Constants of the program
\* ------------------------------------------------------------------------

\* ipc::DATA_SIZE, the capacity of a slot's data area (imported at line 3).
DATA_SIZE == 8192

\* Header::estimate_size(): 1 + 1 + 1 + 3
estimate_size == 1 + 1 + 1 + 3

\* Header::payload_max_size()
payload_max_size == DATA_SIZE - estimate_size

\* Direction, Packet and Flag discriminants (#[repr(u8)]).
ToWorker == 0
ToBackend == 1

Ack == 0
Bind == 1
Failure == 2
Metadata == 3
Parse == 4

More == 0
Last == 1

\* ------------------------------------------------------------------------
\* Bytes
\* ------------------------------------------------------------------------

\* Big-endian data bytes, as rmp writes every multi-byte integer.
U16BE(n) == << (n \div 256) % 256, n % 256 >>

U32BE(n) == << (n \div 16777216) % 256, (n \div 65536) % 256,
               (n \div 256) % 256, n % 256 >>

\* `x as u16`
AsU16(x) == x % 65536

\* A string input: len bytes of the ASCII character ch.
Str(len, ch) == [i \in 1..len |-> ch]

\* ------------------------------------------------------------------------
\* SlotStream: the cursor over the slot's data area.  A stream value is
\* [buf, pos, err]; err is the error the `?` operator has propagated so far
\* ("none" while every step succeeded), and every later step is skipped.
\* ------------------------------------------------------------------------

NoErr == "none"

\* Slot -> SlotStream: a cursor at the start of the data area.
StreamOf(b) == [buf |-> b, pos |-> 0, err |-> NoErr]

\* stream.position()
Position(s) == s.pos

\* stream.reset()
Reset(s) == IF s.err # NoErr THEN s ELSE [s EXCEPT !.pos = 0]

\* One write_bytes call of the stream (used by every rmp encoder).  A write
\* that does not fit stores the bytes that still fit and fails.
WriteBytes(s, bytes) ==
  IF s.err # NoErr THEN s
  ELSE IF s.pos + Len(bytes) <= DATA_SIZE
       THEN [s EXCEPT !.buf = SubSeq(s.buf, 1, s.pos) \o bytes
                                \o SubSeq(s.buf, s.pos + Len(bytes) + 1, DATA_SIZE),
                      !.pos = s.pos + Len(bytes)]
       ELSE [buf |-> SubSeq(s.buf, 1, s.pos)
                       \o SubSeq(bytes, 1, DATA_SIZE - s.pos),
             pos |-> DATA_SIZE,
             err |-> "Io"]

\* stream.rewind(n): advances the cursor by n bytes without reading.
Rewind(s, n) ==
  IF s.err # NoErr THEN s
  ELSE IF s.pos + n <= DATA_SIZE THEN [s EXCEPT !.pos = s.pos + n]
       ELSE [s EXCEPT !.err = "Io"]

\* stream.look_ahead(n): the next n bytes, the cursor left where it is.
LookAhead(s, n) ==
  IF s.err # NoErr THEN [s |-> s, v |-> << >>]
  ELSE IF s.pos + n <= DATA_SIZE
       THEN [s |-> s, v |-> SubSeq(s.buf, s.pos + 1, s.pos + n)]
       ELSE [s |-> [s EXCEPT !.err = "Io"], v |-> << >>]

\* One byte read from the stream (every rmp decoder starts with it).
ReadByte(s) ==
  IF s.err # NoErr THEN [s |-> s, v |-> 0]
  ELSE IF s.pos + 1 <= DATA_SIZE
       THEN [s |-> [s EXCEPT !.pos = s.pos + 1], v |-> s.buf[s.pos + 1]]
       ELSE [s |-> [s EXCEPT !.err = "Io"], v |-> 0]

\* ------------------------------------------------------------------------
\* rmp::encode
\* ------------------------------------------------------------------------

\* write_pfix: a positive fixint is its own marker byte (val < 128).
write_pfix(s, val) == WriteBytes(s, << val >>)

\* write_u8: marker 0xcc, one data byte.
write_u8(s, val) == WriteBytes(WriteBytes(s, << 204 >>), << val >>)

\* write_u16: marker 0xcd, two data bytes.
write_u16(s, val) == WriteBytes(WriteBytes(s, << 205 >>), U16BE(val))

\* write_u32: marker 0xce, four data bytes.
write_u32(s, val) == WriteBytes(WriteBytes(s, << 206 >>), U32BE(val))

\* write_i32: marker 0xd2, four data bytes (values here are not negative).
write_i32(s, val) == WriteBytes(WriteBytes(s, << 210 >>), U32BE(val))

\* write_nil: marker 0xc0.
write_nil(s) == WriteBytes(s, << 192 >>)

\* write_bool: marker 0xc3 for true, 0xc2 for false.
write_bool(s, val) == WriteBytes(s, << IF val THEN 195 ELSE 194 >>)

\* write_str_len: fixstr 0xa0|len, str8 0xd9, str16 0xda, str32 0xdb.
write_str_len(s, len) ==
  IF len < 32 THEN WriteBytes(s, << 160 + len >>)
  ELSE IF len < 256 THEN WriteBytes(WriteBytes(s, << 217 >>), << len >>)
  ELSE IF len < 65536 THEN WriteBytes(WriteBytes(s, << 218 >>), U16BE(len))
  ELSE WriteBytes(WriteBytes(s, << 219 >>), U32BE(len))

\* write_str: the length prefix, then the bytes of the string.
write_str(s, data) == WriteBytes(write_str_len(s, Len(data)), data)

\* write_array_len: fixarray 0x90|len, array16 0xdc, array32 0xdd.
write_array_len(s, len) ==
  IF len < 16 THEN WriteBytes(s, << 144 + len >>)
  ELSE IF len < 65536 THEN WriteBytes(WriteBytes(s, << 220 >>), U16BE(len))
  ELSE WriteBytes(WriteBytes(s, << 221 >>), U32BE(len))

\* write_bin_len: bin8 0xc4, bin16 0xc5, bin32 0xc6.
write_bin_len(s, len) ==
  IF len < 256 THEN WriteBytes(WriteBytes(s, << 196 >>), << len >>)
  ELSE IF len < 65536 THEN WriteBytes(WriteBytes(s, << 197 >>), U16BE(len))
  ELSE WriteBytes(WriteBytes(s, << 198 >>), U32BE(len))

\* ------------------------------------------------------------------------
\* rmp::decode.  A decoder returns [s, v]: the stream after the read (with
\* its error, if the read failed) and the value read.
\* ------------------------------------------------------------------------

\* read_pfix: the marker must be a positive fixint.
read_pfix(s) ==
  LET r == ReadByte(s)
  IN IF r.s.err # NoErr THEN r
     ELSE IF r.v < 128 THEN r
     ELSE [s |-> [r.s EXCEPT !.err = "TypeMismatch"], v |-> r.v]

\* read_u16: the marker must be 0xcd; then two data bytes.
read_u16(s) ==
  LET m == ReadByte(s)
      hi == ReadByte(m.s)
      lo == ReadByte(hi.s)
  IN IF m.s.err # NoErr THEN m
     ELSE IF m.v # 205 THEN [s |-> [m.s EXCEPT !.err = "TypeMismatch"], v |-> m.v]
     ELSE [s |-> lo.s, v |-> hi.v * 256 + lo.v]

\* read_str_len: fixstr, str8, str16 or str32 marker and its length bytes.
read_str_len(s) ==
  LET m == ReadByte(s)
      b1 == ReadByte(m.s)
      b2 == ReadByte(b1.s)
      b3 == ReadByte(b2.s)
      b4 == ReadByte(b3.s)
  IN IF m.s.err # NoErr THEN m
     ELSE IF m.v >= 160 /\ m.v < 192 THEN [s |-> m.s, v |-> m.v - 160]
     ELSE IF m.v = 217 THEN b1
     ELSE IF m.v = 218 THEN [s |-> b2.s, v |-> b1.v * 256 + b2.v]
     ELSE IF m.v = 219
          THEN [s |-> b4.s,
                v |-> b1.v * 16777216 + b2.v * 65536 + b3.v * 256 + b4.v]
     ELSE [s |-> [m.s EXCEPT !.err = "TypeMismatch"], v |-> m.v]

\* read_array_len: fixarray, array16 or array32 marker and its length bytes.
read_array_len(s) ==
  LET m == ReadByte(s)
      b1 == ReadByte(m.s)
      b2 == ReadByte(b1.s)
      b3 == ReadByte(b2.s)
      b4 == ReadByte(b3.s)
  IN IF m.s.err # NoErr THEN m
     ELSE IF m.v >= 144 /\ m.v < 160 THEN [s |-> m.s, v |-> m.v - 144]
     ELSE IF m.v = 220 THEN [s |-> b2.s, v |-> b1.v * 256 + b2.v]
     ELSE IF m.v = 221
          THEN [s |-> b4.s,
                v |-> b1.v * 16777216 + b2.v * 65536 + b3.v * 256 + b4.v]
     ELSE [s |-> [m.s EXCEPT !.err = "TypeMismatch"], v |-> m.v]

\* read_u8: the marker must be 0xcc; then one data byte.
read_u8(s) ==
  LET m == ReadByte(s)
      b == ReadByte(m.s)
  IN IF m.s.err # NoErr THEN m
     ELSE IF m.v # 204 THEN [s |-> [m.s EXCEPT !.err = "TypeMismatch"], v |-> m.v]
     ELSE b

\* read_i32: the marker must be 0xd2; then four data bytes.
read_i32(s) ==
  LET m == ReadByte(s)
      b1 == ReadByte(m.s)
      b2 == ReadByte(b1.s)
      b3 == ReadByte(b2.s)
      b4 == ReadByte(b3.s)
  IN IF m.s.err # NoErr THEN m
     ELSE IF m.v # 210 THEN [s |-> [m.s EXCEPT !.err = "TypeMismatch"], v |-> m.v]
     ELSE [s |-> b4.s,
           v |-> b1.v * 16777216 + b2.v * 65536 + b3.v * 256 + b4.v]

\* read_u32: the marker must be 0xce; then four data bytes.
read_u32(s) ==
  LET m == ReadByte(s)
      b1 == ReadByte(m.s)
      b2 == ReadByte(b1.s)
      b3 == ReadByte(b2.s)
      b4 == ReadByte(b3.s)
  IN IF m.s.err # NoErr THEN m
     ELSE IF m.v # 206 THEN [s |-> [m.s EXCEPT !.err = "TypeMismatch"], v |-> m.v]
     ELSE [s |-> b4.s,
           v |-> b1.v * 16777216 + b2.v * 65536 + b3.v * 256 + b4.v]

\* read_bool: 0xc3 is true, 0xc2 is false.
read_bool(s) ==
  LET m == ReadByte(s)
  IN IF m.s.err # NoErr THEN [s |-> m.s, v |-> FALSE]
     ELSE IF m.v = 195 THEN [s |-> m.s, v |-> TRUE]
     ELSE IF m.v = 194 THEN [s |-> m.s, v |-> FALSE]
     ELSE [s |-> [m.s EXCEPT !.err = "TypeMismatch"], v |-> FALSE]

\* read_bin_len: bin8, bin16 or bin32 marker and its length bytes.
read_bin_len(s) ==
  LET m == ReadByte(s)
      b1 == ReadByte(m.s)
      b2 == ReadByte(b1.s)
      b3 == ReadByte(b2.s)
      b4 == ReadByte(b3.s)
  IN IF m.s.err # NoErr THEN m
     ELSE IF m.v = 196 THEN b1
     ELSE IF m.v = 197 THEN [s |-> b2.s, v |-> b1.v * 256 + b2.v]
     ELSE IF m.v = 198
          THEN [s |-> b4.s,
                v |-> b1.v * 16777216 + b2.v * 65536 + b3.v * 256 + b4.v]
     ELSE [s |-> [m.s EXCEPT !.err = "TypeMismatch"], v |-> m.v]

\* ------------------------------------------------------------------------
\* Tags and header
\* ------------------------------------------------------------------------

\* A conversion result: [ok, v] on success, [ok, field, value] for
\* FusionError::Deserialize(field, value).
Direction_try_from(value) ==
  IF value = 0 THEN [ok |-> TRUE, v |-> ToWorker]
  ELSE IF value = 1 THEN [ok |-> TRUE, v |-> ToBackend]
  ELSE [ok |-> FALSE, field |-> "direction", value |-> value]

\* Packet::try_from with the range check off by one: 5 is taken for Parse.
Packet_try_from_lenient(value) ==
  IF value = 0 THEN [ok |-> TRUE, v |-> Ack]
  ELSE IF value = 1 THEN [ok |-> TRUE, v |-> Bind]
  ELSE IF value = 2 THEN [ok |-> TRUE, v |-> Failure]
  ELSE IF value = 3 THEN [ok |-> TRUE, v |-> Metadata]
  ELSE IF value <= 5 THEN [ok |-> TRUE, v |-> Parse]
  ELSE [ok |-> FALSE, field |-> "packet", value |-> value]

Packet_try_from(value) ==
  IF value = 0 THEN [ok |-> TRUE, v |-> Ack]
  ELSE IF value = 1 THEN [ok |-> TRUE, v |-> Bind]
  ELSE IF value = 2 THEN [ok |-> TRUE, v |-> Failure]
  ELSE IF value = 3 THEN [ok |-> TRUE, v |-> Metadata]
  ELSE IF value = 4 THEN [ok |-> TRUE, v |-> Parse]
  ELSE [ok |-> FALSE, field |-> "packet", value |-> value]

Flag_try_from(value) ==
  IF value = 0 THEN [ok |-> TRUE, v |-> More]
  ELSE IF value = 1 THEN [ok |-> TRUE, v |-> Last]
  ELSE [ok |-> FALSE, field |-> "flag", value |-> value]

\* Header::default(): the #[default] variant of each tag, length 0.
HeaderDefault ==
  [direction |-> ToWorker, packet |-> Ack, flag |-> Last, length |-> 0]

\* The result of consume_header when no header is returned.
NoHeader == [direction |-> -1, packet |-> -1, flag |-> -1, length |-> -1]

\* write_header with the packet kind written before the direction.
write_header_swapped(s, header) ==
  LET s1 == write_pfix(s, header.packet)
      s2 == write_pfix(s1, header.direction)
      s3 == write_pfix(s2, header.flag)
  IN write_u16(s3, header.length)

\* write_header with the length in the shortest encoding: one byte for a
\* length under 128, three bytes otherwise.
write_header_compact(s, header) ==
  LET s1 == write_pfix(s, header.direction)
      s2 == write_pfix(s1, header.packet)
      s3 == write_pfix(s2, header.flag)
  IN IF header.length < 128 THEN write_pfix(s3, header.length)
     ELSE write_u16(s3, header.length)

\* write_header
write_header(s, header) ==
  LET s1 == write_pfix(s, header.direction)
      s2 == write_pfix(s1, header.packet)
      s3 == write_pfix(s2, header.flag)
  IN write_u16(s3, header.length)

\* consume_header: [err, field, value, header, s].  err is "none" and header
\* the decoded header on success; on a Deserialize error field and value are
\* those of the error; "panic" is the failed assert_eq!(stream.position(), 0).
consume_header(s) ==
  LET r1 == read_pfix(s)
      direction == Direction_try_from(r1.v)
      r2 == read_pfix(r1.s)
      packet == Packet_try_from(r2.v)
      r3 == read_pfix(r2.s)
      flag == Flag_try_from(r3.v)
      r4 == read_u16(r3.s)
      Fail(e, f, v, st) ==
        [err |-> e, field |-> f, value |-> v, header |-> NoHeader, s |-> st]
  IN IF s.pos # 0 THEN Fail("panic", "", 0, s)
     ELSE IF r1.s.err # NoErr THEN Fail(r1.s.err, "", 0, r1.s)
     ELSE IF ~direction.ok
          THEN Fail("Deserialize", direction.field, direction.value, r1.s)
     ELSE IF r2.s.err # NoErr THEN Fail(r2.s.err, "", 0, r2.s)
     ELSE IF ~packet.ok
          THEN Fail("Deserialize", packet.field, packet.value, r2.s)
     ELSE IF r3.s.err # NoErr THEN Fail(r3.s.err, "", 0, r3.s)
     ELSE IF ~flag.ok
          THEN Fail("Deserialize", flag.field, flag.value, r3.s)
     ELSE IF r4.s.err # NoErr THEN Fail(r4.s.err, "", 0, r4.s)
     ELSE [err |-> NoErr, field |-> "", value |-> 0,
           header |-> [direction |-> direction.v, packet |-> packet.v,
                       flag |-> flag.v, length |-> r4.v],
           s |-> r4.s]

\* ------------------------------------------------------------------------
\* PARSE
\* ------------------------------------------------------------------------

\* The length of a query counted without the marker byte.
query_length_short(query) == 1 + Len(query)

\* let length = 1 + 1 + query.len();
query_length(query) == 1 + 1 + Len(query)

prepare_query(s0, query) ==
  LET s == Reset(s0)
      length == query_length(query)
      header == [direction |-> ToWorker, packet |-> Parse,
                 length |-> AsU16(length), flag |-> Last]
  IN IF length > payload_max_size
     THEN [s EXCEPT !.err = "PayloadTooLarge"]
     ELSE write_str(write_header(s, header), query)

\* read_query that also moves the cursor past the query bytes.
read_query_consuming(s) ==
  LET len == read_str_len(s)
      buf == LookAhead(len.s, len.v)
  IN [s |-> Rewind(buf.s, len.v), query |-> buf.v, len |-> len.v]

\* read_query: [s, query, len]; the cursor stays at the first query byte.
read_query(s) ==
  LET len == read_str_len(s)
      buf == LookAhead(len.s, len.v)
  IN [s |-> buf.s, query |-> buf.v, len |-> len.v]

\* ------------------------------------------------------------------------
\* Deferred-length writer (shared shape of Bind and both Metadata halves)
\* ------------------------------------------------------------------------

\* The placeholder header written where the cursor happens to be.
begin_deferred_no_reset(s0) == write_header(s0, HeaderDefault)

\* stream.reset(); write_header(stream, &Header::default())?;
begin_deferred(s0) == write_header(Reset(s0), HeaderDefault)

\* The length measured from the start of the slot, the header included.
deferred_length_from_start(pos_init, pos_final) == pos_final

\* pos_final - pos_init
deferred_length(pos_init, pos_final) == pos_final - pos_init

\* The backpatch with the real header flagged More instead of Last.
finish_deferred_more(s, pos_init, direction, packet) ==
  LET pos_final == Position(s)
      length == pos_final - pos_init
      header == [direction |-> direction, packet |-> packet,
                 length |-> length, flag |-> More]
  IN IF s.err # NoErr THEN s
     ELSE IF length > 65535 THEN [s EXCEPT !.err = "TryFromInt"]
     ELSE Rewind(write_header(Reset(s), header), length)

\* The backpatch without the final stream.rewind(length): the cursor stays
\* right after the header.
finish_deferred_no_rewind(s, pos_init, direction, packet) ==
  LET pos_final == Position(s)
      length == pos_final - pos_init
      header == [direction |-> direction, packet |-> packet,
                 length |-> length, flag |-> Last]
  IN IF s.err # NoErr THEN s
     ELSE IF length > 65535 THEN [s EXCEPT !.err = "TryFromInt"]
     ELSE write_header(Reset(s), header)

\* From `let pos_final = stream.position()` to the end of the function: the
\* length is measured, the real header written at position 0, and the cursor
\* moved past the payload.
finish_deferred(s, pos_init, direction, packet) ==
  LET pos_final == Position(s)
      length == deferred_length(pos_init, pos_final)
      header == [direction |-> direction, packet |-> packet,
                 length |-> length, flag |-> Last]
  IN IF s.err # NoErr THEN s
     ELSE IF length > 65535 THEN [s EXCEPT !.err = "TryFromInt"]
     ELSE Rewind(write_header(Reset(s), header), length)

\* ------------------------------------------------------------------------
\* Scalar values (crate::data_type)
\* ------------------------------------------------------------------------

\* EncodedType::try_from(type oid): the closed type enumeration.
EncodedType_try_from(type_oid) ==
  IF type_oid = "BOOLOID" THEN [ok |-> TRUE, v |-> 0]
  ELSE IF type_oid = "TEXTOID" THEN [ok |-> TRUE, v |-> 1]
  ELSE IF type_oid = "INT4OID" THEN [ok |-> TRUE, v |-> 3]
  ELSE [ok |-> FALSE, v |-> 0]

\* datum_to_scalar(value, ptype, isnull): the typed scalar of a parameter.
datum_to_scalar(param) ==
  LET etype == EncodedType_try_from(param.ptype)
  IN IF ~etype.ok THEN [ok |-> FALSE]
     ELSE [ok |-> TRUE,
           v |-> [type |-> etype.v, isnull |-> param.isnull,
                  value |-> IF param.isnull THEN 0 ELSE param.value,
                  text |-> param.text]]

\* write_scalar_value: the type tag, then nil or the value.
write_scalar_value(s, scalar) ==
  LET s1 == write_u8(s, scalar.type)
  IN IF scalar.isnull THEN write_nil(s1)
     ELSE IF scalar.type = 1
          THEN write_str(s1, Str(scalar.text[1], scalar.text[2]))
     ELSE write_i32(s1, scalar.value)

\* A ScalarValue as the receiver holds it: the type, null or not, and the
\* integer or the bytes of the text.
ScalarValue(type, isnull, value, bytes) ==
  [type |-> type, isnull |-> isnull, value |-> value, bytes |-> bytes]

\* read_scalar_value: the type tag, then nil for a typed null or the value.
read_scalar_value(s) ==
  LET type == read_u8(s)
      marker == LookAhead(type.s, 1)
      nil == ReadByte(marker.s)
      len == read_str_len(type.s)
      text == LookAhead(len.s, len.v)
      int == read_i32(type.s)
  IN IF marker.s.err # NoErr
     THEN [s |-> marker.s, v |-> ScalarValue(0, TRUE, 0, << >>)]
     ELSE IF marker.v = << 192 >>
          THEN [s |-> nil.s, v |-> ScalarValue(type.v, TRUE, 0, << >>)]
     ELSE IF type.v = 1
          THEN [s |-> Rewind(text.s, len.v),
                v |-> ScalarValue(type.v, FALSE, 0, text.v)]
     ELSE [s |-> int.s, v |-> ScalarValue(type.v, FALSE, int.v, << >>)]

\* ------------------------------------------------------------------------
\* BIND
\* ------------------------------------------------------------------------

\* for param in params { datum_to_scalar(..)?; write_scalar_value(..)?; }
RECURSIVE write_params(_, _)
write_params(s, params) ==
  IF s.err # NoErr \/ params = << >> THEN s
  ELSE LET value == datum_to_scalar(Head(params))
       IN IF ~value.ok THEN [s EXCEPT !.err = "UnsupportedType"]
          ELSE write_params(write_scalar_value(s, value.v), Tail(params))

\* The payload of a Bind message, written after the placeholder header.
params_payload(s, params) ==
  write_params(write_array_len(s, Len(params)), params)

prepare_params(s0, params) ==
  LET s1 == begin_deferred(s0)
      pos_init == Position(s1)
      s2 == params_payload(s1, params)
  IN finish_deferred(s2, pos_init, ToWorker, Bind)

\* for _ in 0..len { params.push(read_scalar_value(stream)?); }
RECURSIVE read_scalar_values(_, _)
read_scalar_values(s, n) ==
  IF s.err # NoErr \/ n <= 0 THEN [s |-> s, v |-> << >>]
  ELSE LET head == read_scalar_value(s)
           tail == read_scalar_values(head.s, n - 1)
       IN [s |-> tail.s, v |-> << head.v >> \o tail.v]

\* read_params with the loop one iteration short.
read_params_one_short(s) ==
  LET len == read_array_len(s)
  IN read_scalar_values(len.s, len.v - 1)

\* read_params: [s, v], v the scalars in the order they were written.
read_params(s) ==
  LET len == read_array_len(s)
  IN read_scalar_values(len.s, len.v)

\* ------------------------------------------------------------------------
\* FAILURE
\* ------------------------------------------------------------------------

\* let length = 1 + 1 + u32::try_from(message.len())?;
error_length(message) == 1 + 1 + Len(message)

prepare_error(s0, message) ==
  LET s == Reset(s0)
      length == error_length(message)
      header == [direction |-> ToBackend, packet |-> Failure,
                 length |-> AsU16(length), flag |-> Last]
  IN write_str(write_header(s, header), message)

\* read_error: [s, message]
read_error(s) ==
  LET len == read_str_len(s)
      buf == LookAhead(len.s, len.v)
  IN [s |-> buf.s, message |-> buf.v]

\* ------------------------------------------------------------------------
\* METADATA
\* ------------------------------------------------------------------------

\* write_c_str without the terminating 0: a blob of len bytes.
write_c_str_unterminated(s, str) ==
  LET s1 == write_bin_len(s, Len(str))
  IN WriteBytes(s1, str)

\* write_c_str: a binary blob of len + 1 bytes, the last one 0.
write_c_str(s, str) ==
  LET s1 == write_bin_len(s, Len(str) + 1)
      s2 == WriteBytes(s1, str)
  IN write_pfix(s2, 0)

\* write_table_ref: a table reference is [kind, schema, table], kind "Bare",
\* "Partial" or "Full"; names are <<len, ch>> pairs.
write_table_ref(s, table) ==
  IF table.kind = "Bare"
  THEN write_c_str(write_array_len(s, 1), Str(table.table[1], table.table[2]))
  ELSE LET s1 == write_array_len(s, 2)
           s2 == write_c_str(s1, Str(table.schema[1], table.schema[2]))
       IN write_c_str(s2, Str(table.table[1], table.table[2]))

\* The receiver's side of a table-reference request, as test_table_request
\* reads it: read_bin_len, look_ahead of the blob, rewind past it.  A blob is
\* returned as [len, bytes].
read_c_str(s) ==
  LET len == read_bin_len(s)
      blob == LookAhead(len.s, len.v)
  IN [s |-> Rewind(blob.s, len.v), v |-> [len |-> len.v, bytes |-> blob.v]]

RECURSIVE read_c_strs(_, _)
read_c_strs(s, n) ==
  IF s.err # NoErr \/ n = 0 THEN [s |-> s, v |-> << >>]
  ELSE LET head == read_c_str(s)
           tail == read_c_strs(head.s, n - 1)
       IN [s |-> tail.s, v |-> << head.v >> \o tail.v]

\* One table reference: read_array_len, then that many blobs.
read_table_ref(s) ==
  LET elem_num == read_array_len(s)
  IN read_c_strs(elem_num.s, elem_num.v)

RECURSIVE read_table_ref_list(_, _)
read_table_ref_list(s, n) ==
  IF s.err # NoErr \/ n = 0 THEN [s |-> s, v |-> << >>]
  ELSE LET head == read_table_ref(s)
           tail == read_table_ref_list(head.s, n - 1)
       IN [s |-> tail.s, v |-> << head.v >> \o tail.v]

\* The whole request: read_array_len, then that many table references.
read_table_refs(s) ==
  LET table_num == read_array_len(s)
  IN read_table_ref_list(table_num.s, table_num.v)

RECURSIVE write_table_refs(_, _)
write_table_refs(s, tables) ==
  IF s.err # NoErr \/ tables = << >> THEN s
  ELSE write_table_refs(write_table_ref(s, Head(tables)), Tail(tables))

\* The payload of a table-reference request.
table_refs_payload(s, tables) ==
  write_table_refs(write_array_len(s, Len(tables)), tables)

prepare_table_refs(s0, tables) ==
  LET s1 == begin_deferred(s0)
      pos_init == Position(s1)
      s2 == table_refs_payload(s1, tables)
  IN finish_deferred(s2, pos_init, ToBackend, Metadata)

\* The host's catalog: the tuple descriptor of each relation, a sequence of
\* attributes [name, type_oid, attnotnull, dropped] (name a <<len, ch>> pair).
Attr(name, type_oid, attnotnull, dropped) ==
  [name |-> name, type_oid |-> type_oid, attnotnull |-> attnotnull,
   dropped |-> dropped]

TupleDesc(rel_oid) ==
  CASE rel_oid = 16384 ->
         << Attr(<<1, 97>>, "INT4OID", TRUE, FALSE),
            Attr(<<1, 98>>, "TEXTOID", FALSE, FALSE) >>
    [] rel_oid = 16385 ->
         << Attr(<<1, 97>>, "INT4OID", FALSE, FALSE),
            Attr(<<28, 46>>, "INT4OID", FALSE, TRUE),
            Attr(<<1, 99>>, "TEXTOID", TRUE, FALSE) >>
    [] rel_oid = 16386 ->
         [i \in 1..12 |-> Attr(<<63, 119>>, "INT4OID", FALSE, FALSE)]
    [] OTHER ->
         << Attr(<<1, 97>>, "INT4OID", FALSE, FALSE),
            Attr(<<1, 112>>, "POINTOID", FALSE, FALSE) >>

\* for attr in tuple_desc.iter() { if attr.is_dropped() { continue; } ... }
RECURSIVE write_attrs(_, _)
write_attrs(s, attrs) ==
  IF s.err # NoErr \/ attrs = << >> THEN s
  ELSE LET attr == Head(attrs)
           etype == EncodedType_try_from(attr.type_oid)
           is_nullable == ~attr.attnotnull
           s1 == write_array_len(s, 3)
           s2 == write_str(s1, Str(attr.name[1], attr.name[2]))
           s3 == write_u8(s2, etype.v)
       IN IF attr.dropped THEN write_attrs(s, Tail(attrs))
          ELSE IF ~etype.ok THEN [s EXCEPT !.err = "UnsupportedType"]
          ELSE write_attrs(write_bool(s3, is_nullable), Tail(attrs))

\* serialize_table with attr_num counting the dropped columns too.
serialize_table_counts_dropped(s, rel_oid) ==
  LET tuple_desc == TupleDesc(rel_oid)
      attr_num == Len(tuple_desc)
      s1 == write_u32(s, rel_oid)
      s2 == write_array_len(s1, attr_num)
  IN write_attrs(s2, tuple_desc)

serialize_table(s, rel_oid) ==
  LET tuple_desc == TupleDesc(rel_oid)
      attr_num == Cardinality({i \in 1..Len(tuple_desc) : ~tuple_desc[i].dropped})
      s1 == write_u32(s, rel_oid)
      s2 == write_array_len(s1, attr_num)
  IN write_attrs(s2, tuple_desc)

RECURSIVE serialize_tables(_, _)
serialize_tables(s, rel_oids) ==
  IF s.err # NoErr \/ rel_oids = << >> THEN s
  ELSE serialize_tables(serialize_table(s, Head(rel_oids)), Tail(rel_oids))

\* The payload of a table metadata response.
metadata_payload(s, rel_oids) ==
  serialize_tables(write_array_len(s, Len(rel_oids)), rel_oids)

prepare_metadata(s0, rel_oids) ==
  LET s1 == begin_deferred(s0)
      pos_init == Position(s1)
      s2 == metadata_payload(s1, rel_oids)
  IN finish_deferred(s2, pos_init, ToWorker, Metadata)

\* The receiver's side of a metadata response, as test_metadata_response
\* reads it.  A column descriptor is returned as [elem_num, name, etype,
\* is_nullable], elem_num the declared length of its array.
read_attr(s) ==
  LET elem_num == read_array_len(s)
      name_len == read_str_len(elem_num.s)
      name == LookAhead(name_len.s, name_len.v)
      etype == read_u8(Rewind(name.s, name_len.v))
      is_nullable == read_bool(etype.s)
  IN [s |-> is_nullable.s,
      v |-> [elem_num |-> elem_num.v, name |-> name.v, etype |-> etype.v,
             is_nullable |-> is_nullable.v]]

RECURSIVE read_attrs(_, _)
read_attrs(s, n) ==
  IF s.err # NoErr \/ n = 0 THEN [s |-> s, v |-> << >>]
  ELSE LET head == read_attr(s)
           tail == read_attrs(head.s, n - 1)
       IN [s |-> tail.s, v |-> << head.v >> \o tail.v]

\* One relation: its oid, the declared number of columns, the descriptors.
read_table(s) ==
  LET oid == read_u32(s)
      attr_num == read_array_len(oid.s)
      attrs == read_attrs(attr_num.s, attr_num.v)
  IN [s |-> attrs.s,
      v |-> [oid |-> oid.v, attr_num |-> attr_num.v, attrs |-> attrs.v]]

RECURSIVE read_tables(_, _)
read_tables(s, n) ==
  IF s.err # NoErr \/ n = 0 THEN [s |-> s, v |-> << >>]
  ELSE LET head == read_table(s)
           tail == read_tables(head.s, n - 1)
       IN [s |-> tail.s, v |-> << head.v >> \o tail.v]

\* The whole response: read_array_len, then that many relations.
read_metadata(s) ==
  LET table_num == read_array_len(s)
  IN read_tables(table_num.s, table_num.v)

\* ------------------------------------------------------------------------
\* Notify
\* ------------------------------------------------------------------------

\* worker_id(): the well-known worker process.
worker_id == "worker"

\* The backend processes; one of them owns the slot.
Backends == {"backend1", "backend2"}

\* signal(slot_id, direction): the process ProcSendSignal is called with.
\* slot_owner is Bus::new().slot(slot_id).owner().
signal(slot_owner, direction) ==
  IF direction = ToWorker THEN worker_id ELSE slot_owner

\* The direction each send_* entry point passes to signal.
signal_direction(fn) ==
  CASE fn = "send_query" -> ToWorker
    [] fn = "send_params" -> ToWorker
    [] fn = "send_error" -> ToBackend
    [] fn = "send_table_refs" -> ToWorker
    [] fn = "send_metadata" -> ToWorker

\* ------------------------------------------------------------------------
\* Inputs
\* ------------------------------------------------------------------------

\* Number of send_* calls made on the slot in one behaviour.
MaxSends == 2

\* Query and error texts, <<len, ch>>: the empty string, each length-prefix
\* width of MessagePack, and the lengths around the capacity of the slot.
Queries ==
  { <<len, 113>> : len \in {0, 8, 31, 32, 255, 256, payload_max_size - 3,
                            payload_max_size - 2, payload_max_size - 1} }

Messages ==
  { <<len, 101>> : len \in {0, 17, 32, 256, payload_max_size - 3,
                            payload_max_size - 2, DATA_SIZE} }

\* ParamExternData: [value, ptype, isnull].  The datum of an integer is the
\* integer; the datum of a text points to the text, <<len, ch>>.
Param(value, ptype, isnull) ==
  [value |-> value, text |-> <<0, 0>>, ptype |-> ptype, isnull |-> isnull]

TextParam(text) ==
  [value |-> 0, text |-> text, ptype |-> "TEXTOID", isnull |-> FALSE]

ParamLists ==
  { << >>,
    << Param(1, "INT4OID", FALSE) >>,
    << Param(1, "INT4OID", FALSE), Param(0, "INT4OID", TRUE) >>,
    << TextParam(<<17, 116>>), Param(7, "INT4OID", FALSE) >>,
    << Param(1, "INT4OID", FALSE), TextParam(<<DATA_SIZE, 116>>) >>,
    << Param(1, "INT4OID", FALSE), Param(0, "POINTOID", FALSE) >> }

\* TableReference: bare(table) or partial(schema, table).
Bare(table) == [kind |-> "Bare", schema |-> <<0, 0>>, table |-> table]

Partial(schema, table) == [kind |-> "Partial", schema |-> schema, table |-> table]

TableLists ==
  { << >>,
    << Bare(<<6, 116>>) >>,
    << Bare(<<6, 116>>), Partial(<<6, 115>>, <<6, 117>>) >>,
    << Partial(<<300, 115>>, <<0, 117>>) >>,
    << Partial(<<6, 115>>, <<300, 117>>), Bare(<<DATA_SIZE, 116>>) >> }

RelOidLists ==
  { << >>, << 16384 >>, << 16384, 16385 >>, << 16385, 16386 >>,
    << 16384, 16387 >>, [i \in 1..10 |-> 16386] }

\* ------------------------------------------------------------------------
\* State
\* ------------------------------------------------------------------------

VARIABLES
  buf,       \* the data area of the slot, DATA_SIZE bytes
  pos,       \* the cursor of the stream over the slot
  lock,      \* the process holding the slot lock, or "free"
  owner,     \* the backend registered as the owner of the slot
  pc,        \* where the process using the slot is in its call
  call,      \* the call in progress or last made: [fn, arg]
  err,       \* the error of the call's prepare step, or "none"
  signaled,  \* the process the call has woken, or "nobody"
  sends,     \* number of send_* calls started
  got        \* the result of the last consume_header

vars == << buf, pos, lock, owner, pc, call, err, signaled, sends, got >>

NoCall == [fn |-> "none", arg |-> << >>]

NoGot == [err |-> "unread", field |-> "", value |-> 0, header |-> NoHeader]

\* The tests fill the slot with 1 before use.
FreshBuf == [i \in 1..DATA_SIZE |-> 1]

Init ==
  /\ buf = FreshBuf
  /\ pos = 0
  /\ lock = "free"
  /\ owner \in Backends
  /\ pc = "idle"
  /\ call = NoCall
  /\ err = NoErr
  /\ signaled = "nobody"
  /\ sends = 0
  /\ got = NoGot

\* ------------------------------------------------------------------------
\* The send_* entry points, step by step
\* ------------------------------------------------------------------------

\* The cursor a send_* entry point is called with: the slot's data area and
\* the position the caller left the cursor at.
Stream == [buf |-> buf, pos |-> pos, err |-> NoErr]

\* The caller obtains the locked cursor of the slot from the slot layer: the
\* backend that owns the slot, or the worker.  The cursor is a fresh one at
\* the start of the slot, or one the caller has read a header with, or one
\* left where the previous message ended.
Acquire(p) ==
  /\ pc = "idle"
  /\ lock = "free"
  /\ sends < MaxSends
  /\ lock' = p
  /\ pc' = "locked"
  /\ pos' \in {0, estimate_size, pos}
  /\ call' = NoCall
  /\ err' = NoErr
  /\ signaled' = "nobody"
  /\ sends' = sends + 1
  /\ UNCHANGED << buf, owner, got >>

\* The entry point going on to the guard and the signal whatever prepare_*
\* returned.
Prepared_ignoring_error(fn, arg, s) ==
  /\ buf' = s.buf
  /\ pos' = s.pos
  /\ err' = s.err
  /\ call' = [fn |-> fn, arg |-> arg]
  /\ pc' = "prepared"
  /\ UNCHANGED << lock, owner, signaled, sends, got >>

\* The first statement of a send_* entry point, `prepare_*(&mut stream, ..)?`:
\* s is the stream the prepare function leaves.  On an error the `?` returns.
Prepared(fn, arg, s) ==
  /\ buf' = s.buf
  /\ pos' = s.pos
  /\ err' = s.err
  /\ call' = [fn |-> fn, arg |-> arg]
  /\ pc' = IF s.err = NoErr THEN "prepared" ELSE "failed"
  /\ UNCHANGED << lock, owner, signaled, sends, got >>

PrepareQuery ==
  /\ pc = "locked" /\ lock = owner
  /\ \E q \in Queries :
       Prepared("send_query", q, prepare_query(Stream, Str(q[1], q[2])))

PrepareParams ==
  /\ pc = "locked" /\ lock = owner
  /\ \E params \in ParamLists :
       Prepared("send_params", params, prepare_params(Stream, params))

PrepareError ==
  /\ pc = "locked" /\ lock = worker_id
  /\ \E m \in Messages :
       Prepared("send_error", m, prepare_error(Stream, Str(m[1], m[2])))

PrepareTableRefs ==
  /\ pc = "locked" /\ lock = worker_id
  /\ \E tables \in TableLists :
       Prepared("send_table_refs", tables,
                prepare_table_refs(Stream, tables))

PrepareMetadata ==
  /\ pc = "locked" /\ lock = owner
  /\ \E rel_oids \in RelOidLists :
       Prepared("send_metadata", rel_oids,
                prepare_metadata(Stream, rel_oids))

\* `let _guard = Slot::from(stream);`: the cursor becomes the slot again.  The
\* slot is dropped, and the lock released, when _guard leaves its scope.
Guard ==
  /\ pc = "prepared"
  /\ pc' = "guard"
  /\ UNCHANGED << buf, pos, lock, owner, call, err, signaled, sends, got >>

\* `signal(slot_id, direction);`
Signal ==
  /\ pc = "guard"
  /\ signaled' = signal(owner, signal_direction(call.fn))
  /\ pc' = "signaled"
  /\ UNCHANGED << buf, pos, lock, owner, call, err, sends, got >>

\* `Ok(())`: the scope of the entry point ends and _guard is dropped.
ReturnOk ==
  /\ pc = "signaled"
  /\ lock' = "free"
  /\ pc' = "idle"
  /\ UNCHANGED << buf, pos, owner, call, err, signaled, sends, got >>

\* An error return that leaks the stream instead of dropping it.
ReturnErrLeak ==
  /\ pc = "failed"
  /\ pc' = "idle"
  /\ UNCHANGED << buf, pos, lock, owner, call, err, signaled, sends, got >>

\* The `?` after a failed prepare_*: the entry point returns the error and the
\* stream it owns is dropped, the slot inside it with it.
ReturnErr ==
  /\ pc = "failed"
  /\ lock' = "free"
  /\ pc' = "idle"
  /\ UNCHANGED << buf, pos, owner, call, err, signaled, sends, got >>

Next ==
  \/ \E p \in {owner, worker_id} : Acquire(p)
  \/ PrepareQuery
  \/ PrepareParams
  \/ PrepareError
  \/ PrepareTableRefs
  \/ PrepareMetadata
  \/ Guard
  \/ Signal
  \/ ReturnOk
  \/ ReturnErr

Spec == Init /\ [][Next]_vars

\* ------------------------------------------------------------------------
\* The framing codec on its own: a header is written at the start of a slot
\* and read back (test_header), or the six bytes found at the start of the
\* slot are read as they are.
\* ------------------------------------------------------------------------

\* Header lengths: the u16 range at its ends and around each byte boundary.
HeaderLengths == {0, 42, 255, 256, payload_max_size, 32768, 65535}

Headers ==
  [direction : {ToWorker, ToBackend},
   packet : {Ack, Bind, Failure, Metadata, Parse},
   flag : {More, Last},
   length : HeaderLengths]

\* Bytes found at the start of a slot: valid tags, the first value past each
\* enum's range, and a byte that is no positive fixint.
RawDirections == {0, 1, 2, 128}
RawPackets == {0, 4, 5}
RawFlags == {0, 1, 2}
RawMarkers == {205, 1}

HeaderInit ==
  /\ \E d \in RawDirections, p \in RawPackets, f \in RawFlags, m \in RawMarkers :
       buf = << d, p, f, m, 0, 42 >> \o [i \in 1..(DATA_SIZE - 6) |-> 1]
  /\ pos = 0
  /\ lock = "free"
  /\ owner = "backend1"
  /\ pc = "raw"
  /\ call = NoCall
  /\ err = NoErr
  /\ signaled = "nobody"
  /\ sends = 0
  /\ got = NoGot

\* write_header(&mut stream, &header) on a stream at position 0.
HeaderWrite ==
  /\ pc = "raw"
  /\ \E header \in Headers :
       LET s == write_header(StreamOf(buf), header)
       IN /\ buf' = s.buf
          /\ pos' = s.pos
          /\ err' = s.err
          /\ call' = [fn |-> "write_header", arg |-> header]
  /\ pc' = "written"
  /\ UNCHANGED << lock, owner, signaled, sends, got >>

\* stream.reset(); consume_header(&mut stream)
HeaderRead ==
  /\ pc \in {"raw", "written"}
  /\ LET r == consume_header(Reset([buf |-> buf, pos |-> pos, err |-> NoErr]))
     IN /\ got' = [err |-> r.err, field |-> r.field, value |-> r.value,
                   header |-> r.header]
        /\ pos' = r.s.pos
  /\ pc' = IF pc = "raw" THEN "raw_read" ELSE "read"
  /\ UNCHANGED << buf, lock, owner, call, err, signaled, sends >>

HeaderNext ==
  \/ HeaderWrite
  \/ HeaderRead

SpecHeader == HeaderInit /\ [][HeaderNext]_vars

\* ------------------------------------------------------------------------
\* Properties
\* ------------------------------------------------------------------------

\* The header a reader finds at the start of the slot.
Hdr == consume_header(StreamOf(buf))

\* The direction and packet kind each send_* puts in the header it writes.
header_direction(fn) ==
  CASE fn = "send_query" -> ToWorker
    [] fn = "send_params" -> ToWorker
    [] fn = "send_error" -> ToBackend
    [] fn = "send_table_refs" -> ToBackend
    [] fn = "send_metadata" -> ToWorker

header_packet(fn) ==
  CASE fn = "send_query" -> Parse
    [] fn = "send_params" -> Bind
    [] fn = "send_error" -> Failure
    [] fn = "send_table_refs" -> Metadata
    [] fn = "send_metadata" -> Metadata

FixedLength == {"send_query", "send_error"}
DeferredLength == {"send_params", "send_table_refs", "send_metadata"}

\* The prepare step of the call has returned Ok.
Succeeded == call.fn \in FixedLength \cup DeferredLength /\ err = NoErr

\* The prepare step of the call failed because the message did not fit.
FailedTooLarge ==
  /\ call.fn \in FixedLength \cup DeferredLength
  /\ err \in {"PayloadTooLarge", "Io"}

\* The stream as the payload encoder of the call's deferred-length message
\* leaves it, started right after the 6-byte header.
PayloadStream ==
  LET s == begin_deferred(StreamOf(buf))
  IN CASE call.fn = "send_params" -> params_payload(s, call.arg)
       [] call.fn = "send_table_refs" -> table_refs_payload(s, call.arg)
       [] call.fn = "send_metadata" -> metadata_payload(s, call.arg)

\* C1: once a send has signaled, the process woken is the one the direction
\* of the header in the slot addresses: the worker for ToWorker, the owner of
\* the slot for ToBackend.
C1_WokenIsAddressee ==
  pc = "signaled" =>
    /\ Hdr.err = NoErr
    /\ Hdr.header.direction = ToWorker => signaled = worker_id
    /\ Hdr.header.direction = ToBackend => signaled = owner

\* C2: no process has been woken by a send while the slot lock is still held.
C2_SignalAfterUnlock ==
  signaled # "nobody" => lock = "free"

\* C3: after a successful deferred-length prepare the length of the header at
\* the start of the slot is exactly the number of payload bytes the encoder
\* wrote after the 6-byte header.
C3_DeferredLengthExact ==
  (Succeeded /\ call.fn \in DeferredLength) =>
    /\ Hdr.err = NoErr
    /\ PayloadStream.err = NoErr
    /\ Hdr.header.length = Position(PayloadStream) - estimate_size

C3_Witness ==
  /\ pc = "prepared"
  /\ call.fn = "send_table_refs"
  /\ Len(call.arg) = 0
  /\ Hdr.header.length = 1

\* C4: a send that fails because its message does not fit leaves the slot
\* buffer exactly as it was before the call.
C4_RejectedBeforeWrite ==
  [][(pc' = "failed" /\ FailedTooLarge') => buf' = buf]_vars

\* C5: after a send has failed because its message does not fit, the header
\* position does not hold the real header of the failed message.
C5_NoRealHeaderOnFailure ==
  (pc = "failed" /\ FailedTooLarge) =>
    ~ /\ Hdr.err = NoErr
      /\ Hdr.header.direction = header_direction(call.fn)
      /\ Hdr.header.packet = header_packet(call.fn)
      /\ Hdr.header.flag = Last
      /\ call.fn \in FixedLength => Hdr.header.length = AsU16(2 + call.arg[1])

\* C6: a query whose length as prepare_query counts it is exactly
\* payload_max_size is written whole; one byte more fails with
\* PayloadTooLarge.
C6_QueryBoundary ==
  (call.fn = "send_query" /\ pc \in {"prepared", "failed"}) =>
    /\ 2 + call.arg[1] = payload_max_size =>
         /\ err = NoErr
         /\ read_query(Hdr.s).query = Str(call.arg[1], call.arg[2])
    /\ 2 + call.arg[1] = payload_max_size + 1 => err = "PayloadTooLarge"

\* C7: when a send_* call has returned, with Ok or with an error, the slot
\* lock is no longer held.
C7_LockReleasedOnReturn ==
  pc = "idle" => lock = "free"

C7_Witness ==
  /\ pc = "idle"
  /\ call.fn = "send_metadata"
  /\ err = "UnsupportedType"
  /\ lock = "free"

\* C8: a header written at position 0 and read back after reset is the header
\* written, its tags stored in the order direction, packet, flag.
C8_HeaderRoundTrip ==
  pc = "read" =>
    /\ got.err = NoErr
    /\ got.header = call.arg
    /\ SubSeq(buf, 1, 3) = << call.arg.direction, call.arg.packet, call.arg.flag >>

C8_Witness ==
  /\ pc = "read"
  /\ call.arg.direction = ToBackend
  /\ call.arg.packet = Parse
  /\ call.arg.flag = More
  /\ call.arg.length = 65535
  /\ got.header.length = 65535

\* C9: consume_header on a direction byte 2, a packet byte 5 or a flag byte 2
\* returns Deserialize naming the first invalid field with its value, and no
\* header.
C9_TagValidation ==
  pc = "raw_read" =>
    LET Deser(f, v) ==
          [err |-> "Deserialize", field |-> f, value |-> v, header |-> NoHeader]
    IN /\ buf[1] = 2 => got = Deser("direction", 2)
       /\ (buf[1] \in {0, 1} /\ buf[2] = 5) => got = Deser("packet", 5)
       /\ (buf[1] \in {0, 1} /\ buf[2] \in 0..4 /\ buf[3] = 2) =>
            got = Deser("flag", 2)

C9_Witness ==
  /\ pc = "raw_read"
  /\ buf[1] = 1 /\ buf[2] = 5 /\ buf[3] = 2
  /\ got.field = "packet"

\* C10: after a successful prepare_query or prepare_error the header length
\* is 2 plus the byte length of the string.
C10_FixedLengthIsTwoPlusLen ==
  (Succeeded /\ call.fn \in FixedLength) =>
    /\ Hdr.err = NoErr
    /\ Hdr.header.length = 2 + call.arg[1]

C10_Witness ==
  /\ pc = "prepared"
  /\ call.fn = "send_query"
  /\ call.arg[1] = payload_max_size - 3
  /\ Hdr.header.length = payload_max_size - 1

\* C11: every successful sender leaves its fixed (direction, kind, flag)
\* triple in the header, and whatever header can be read at the start of the
\* slot is never flagged More.
C11_FixedTriple ==
  LET Triple == << Hdr.header.direction, Hdr.header.packet, Hdr.header.flag >>
  IN /\ Succeeded =>
          /\ Hdr.err = NoErr
          /\ call.fn = "send_query" => Triple = << ToWorker, Parse, Last >>
          /\ call.fn = "send_params" => Triple = << ToWorker, Bind, Last >>
          /\ call.fn = "send_error" => Triple = << ToBackend, Failure, Last >>
          /\ call.fn = "send_table_refs" => Triple = << ToBackend, Metadata, Last >>
          /\ call.fn = "send_metadata" => Triple = << ToWorker, Metadata, Last >>
     /\ Hdr.err = NoErr => Hdr.header.flag # More

C11_Witness ==
  /\ sends = 2
  /\ pc = "idle"
  /\ Succeeded
  /\ call.fn = "send_table_refs"
  /\ Hdr.header.direction = ToBackend
  /\ Hdr.header.packet = Metadata
  /\ Hdr.header.flag = Last

\* The blob a name <<len, ch>> is sent as: len + 1 bytes, the last one 0.
CStrOf(name) ==
  [len |-> name[1] + 1, bytes |-> Str(name[1], name[2]) \o << 0 >>]

\* The array a table reference is sent as: (table) or (schema, table).
TableRefOf(table) ==
  IF table.kind = "Bare" THEN << CStrOf(table.table) >>
  ELSE << CStrOf(table.schema), CStrOf(table.table) >>

RECURSIVE TableRefsOf(_)
TableRefsOf(tables) ==
  IF tables = << >> THEN << >>
  ELSE << TableRefOf(Head(tables)) >> \o TableRefsOf(Tail(tables))

\* C12: the payload of a table-reference request is an array with one entry
\* per reference in input order, a bare reference an array of 1 blob, a
\* qualified one an array of 2 (schema, table), each blob of declared length
\* len + 1 holding the name's bytes and a final 0.
C12_TableRefEncoding ==
  (Succeeded /\ call.fn = "send_table_refs") =>
    LET r == read_table_refs(Hdr.s)
    IN /\ r.s.err = NoErr
       /\ r.v = TableRefsOf(call.arg)
       /\ Position(r.s) = pos

C12_Witness ==
  /\ pc = "prepared"
  /\ call.fn = "send_table_refs"
  /\ Len(call.arg) = 2
  /\ call.arg[1].kind = "Bare"
  /\ call.arg[2].kind = "Partial"
  /\ Len(read_table_refs(Hdr.s).v[2]) = 2
  /\ read_table_refs(Hdr.s).v[2][1].bytes = << 115, 115, 115, 115, 115, 115, 0 >>

\* The scalar the receiver must get for a parameter: its conversion by
\* datum_to_scalar, a null parameter a typed null.
ScalarOf(param) ==
  LET scalar == datum_to_scalar(param).v
  IN IF scalar.isnull THEN ScalarValue(scalar.type, TRUE, 0, << >>)
     ELSE IF scalar.type = 1
          THEN ScalarValue(1, FALSE, 0, Str(scalar.text[1], scalar.text[2]))
     ELSE ScalarValue(scalar.type, FALSE, scalar.value, << >>)

RECURSIVE ScalarsOf(_)
ScalarsOf(params) ==
  IF params = << >> THEN << >>
  ELSE << ScalarOf(Head(params)) >> \o ScalarsOf(Tail(params))

\* C13: after a successful prepare_params, consume_header returns kind Bind
\* and read_params returns as many scalars as there were parameters, in the
\* same order, each the conversion of its parameter (a null one a typed null).
C13_BindRoundTrip ==
  (Succeeded /\ call.fn = "send_params") =>
    LET r == read_params(Hdr.s)
    IN /\ Hdr.err = NoErr
       /\ Hdr.header.packet = Bind
       /\ r.s.err = NoErr
       /\ Len(r.v) = Len(call.arg)
       /\ r.v = ScalarsOf(call.arg)

C13_Witness ==
  /\ pc = "prepared"
  /\ call.fn = "send_params"
  /\ call.arg = << Param(1, "INT4OID", FALSE), Param(0, "INT4OID", TRUE) >>
  /\ read_params(Hdr.s).v = << ScalarValue(3, FALSE, 1, << >>),
                               ScalarValue(3, TRUE, 0, << >>) >>

\* C14: read_query after the header returns the query text and its byte
\* length, has consumed only the length prefix, so that the cursor is at the
\* first byte of the query, and has written nothing.
C14_ReadQueryZeroCopy ==
  (Succeeded /\ call.fn = "send_query") =>
    LET query == Str(call.arg[1], call.arg[2])
        r == read_query(Hdr.s)
    IN /\ r.s.err = NoErr
       /\ r.query = query
       /\ r.len = Len(query)
       /\ Position(r.s) = Position(write_str_len(Hdr.s, Len(query)))
       /\ SubSeq(buf, Position(r.s) + 1, Position(r.s) + r.len) = query
       /\ Position(r.s) + r.len = pos
       /\ r.s.buf = buf

C14_Witness ==
  /\ pc = "prepared"
  /\ call.fn = "send_query"
  /\ call.arg[1] = 256
  /\ read_query(Hdr.s).len = 256
  /\ Position(read_query(Hdr.s).s) = estimate_size + 3

\* C15: after a successful deferred-length prepare the cursor is back at
\* pos_final, the end of the payload: 6 + header.length.
C15_CursorAtPosFinal ==
  (Succeeded /\ call.fn \in DeferredLength) =>
    /\ pos = Position(PayloadStream)
    /\ pos = estimate_size + Hdr.header.length

C15_Witness ==
  /\ pc = "prepared"
  /\ call.fn = "send_metadata"
  /\ call.arg = << 16384, 16385 >>
  /\ pos > estimate_size + 1
  /\ pos = estimate_size + Hdr.header.length

\* The descriptors of the columns of a tuple descriptor that are not dropped:
\* (name, encoded type, nullable = not attnotnull), 3 elements each.
RECURSIVE AttrsOf(_)
AttrsOf(attrs) ==
  IF attrs = << >> THEN << >>
  ELSE LET attr == Head(attrs)
       IN IF attr.dropped THEN AttrsOf(Tail(attrs))
          ELSE << [elem_num |-> 3,
                   name |-> Str(attr.name[1], attr.name[2]),
                   etype |-> EncodedType_try_from(attr.type_oid).v,
                   is_nullable |-> ~attr.attnotnull] >>
               \o AttrsOf(Tail(attrs))

RECURSIVE TablesOf(_)
TablesOf(rel_oids) ==
  IF rel_oids = << >> THEN << >>
  ELSE << [oid |-> Head(rel_oids),
           attr_num |-> Len(AttrsOf(TupleDesc(Head(rel_oids)))),
           attrs |-> AttrsOf(TupleDesc(Head(rel_oids)))] >>
       \o TablesOf(Tail(rel_oids))

\* C16: a metadata response holds, per relation in request order, the relation
\* id and a column array whose declared length is the number of descriptors
\* written, the number of columns not dropped; a dropped column has no
\* descriptor, and a descriptor is 3 elements: name, encoded type, nullable
\* (the negation of attnotnull).
C16_MetadataEncoding ==
  (Succeeded /\ call.fn = "send_metadata") =>
    LET r == read_metadata(Hdr.s)
    IN /\ r.s.err = NoErr
       /\ r.v = TablesOf(call.arg)
       /\ \A i \in 1..Len(r.v) : r.v[i].attr_num = Len(r.v[i].attrs)
       /\ Position(r.s) = pos

C16_Witness ==
  /\ pc = "prepared"
  /\ call.fn = "send_metadata"
  /\ call.arg = << 16384, 16385 >>
  /\ Len(TupleDesc(16385)) = 3
  /\ read_metadata(Hdr.s).v[2].attr_num = 2
  /\ read_metadata(Hdr.s).v[2].attrs[2].name = << 99 >>
  /\ ~read_metadata(Hdr.s).v[2].attrs[2].is_nullable

\* C17: after a successful prepare_query or prepare_error the header length
\* is the number of bytes written after the 6-byte header, the cursor
\* position minus 6.
C17_FixedLengthIsExtent ==
  (Succeeded /\ call.fn \in FixedLength) =>
    /\ Hdr.err = NoErr
    /\ Hdr.header.length = pos - estimate_size

\* What the receiver gets when it reads the slot from position 0 with
\* consume_header and the decoder of the call's packet kind: [err, v].
Decoded ==
  CASE call.fn = "send_query" ->
         LET r == read_query(Hdr.s) IN [err |-> r.s.err, v |-> r.query]
    [] call.fn = "send_params" ->
         LET r == read_params(Hdr.s) IN [err |-> r.s.err, v |-> r.v]
    [] call.fn = "send_error" ->
         LET r == read_error(Hdr.s) IN [err |-> r.s.err, v |-> r.message]
    [] call.fn = "send_table_refs" ->
         LET r == read_table_refs(Hdr.s) IN [err |-> r.s.err, v |-> r.v]
    [] call.fn = "send_metadata" ->
         LET r == read_metadata(Hdr.s) IN [err |-> r.s.err, v |-> r.v]

\* The payload the call was given, as the receiver represents it.
Sent ==
  CASE call.fn = "send_query" -> Str(call.arg[1], call.arg[2])
    [] call.fn = "send_params" -> ScalarsOf(call.arg)
    [] call.fn = "send_error" -> Str(call.arg[1], call.arg[2])
    [] call.fn = "send_table_refs" -> TableRefsOf(call.arg)
    [] call.fn = "send_metadata" -> TablesOf(call.arg)

\* The slot holds the final header of the call's message and its full payload.
MessageComplete ==
  /\ Hdr.err = NoErr
  /\ Hdr.header.direction = header_direction(call.fn)
  /\ Hdr.header.packet = header_packet(call.fn)
  /\ Hdr.header.flag = Last
  /\ Decoded.err = NoErr
  /\ Decoded.v = Sent

\* C18: a send whose prepare step failed signals nobody, so whenever a
\* process has been signaled the slot holds the final header and the full
\* payload of the message of that send.
C18_FailedSendWakesNobody ==
  /\ (call.fn # "none" /\ err # NoErr) => signaled = "nobody"
  /\ signaled # "nobody" => (Succeeded /\ MessageComplete)

C18_Witness ==
  /\ pc = "idle"
  /\ sends = 2
  /\ call.fn = "send_metadata"
  /\ err = "Io"
  /\ signaled = "nobody"

\* The bytes the payload encoder of the call's deferred-length message writes
\* when it starts at position 6 of an untouched slot.
PayloadBytes ==
  LET s == Rewind(StreamOf(FreshBuf), estimate_size)
      p == CASE call.fn = "send_params" -> params_payload(s, call.arg)
             [] call.fn = "send_table_refs" -> table_refs_payload(s, call.arg)
             [] call.fn = "send_metadata" -> metadata_payload(s, call.arg)
  IN SubSeq(p.buf, estimate_size + 1, Position(p))

\* C19: the placeholder header and the real header of a deferred-length
\* message both occupy exactly bytes 0..5, and after the final header rewrite
\* the bytes 6 .. pos_final-1 are the payload as its encoder wrote it.
C19_BackpatchKeepsPayload ==
  (Succeeded /\ call.fn \in DeferredLength) =>
    /\ Position(begin_deferred(StreamOf(buf))) = estimate_size
    /\ Hdr.err = NoErr
    /\ Position(Hdr.s) = estimate_size
    /\ SubSeq(buf, estimate_size + 1, pos) = PayloadBytes

C19_Witness ==
  /\ pc = "prepared"
  /\ call.fn = "send_table_refs"
  /\ Len(call.arg) = 1
  /\ call.arg[1].schema[1] = 300
  /\ Hdr.header.length > 255
  /\ SubSeq(buf, estimate_size + 1, pos) = PayloadBytes

\* C20: every prepare_* starts at position 0 whatever the cursor was, so after
\* any sequence of sends the slot read from position 0 with consume_header and
\* the decoder of the kind of the latest successful send gives the header and
\* the payload of that send, nothing of an earlier message.
C20_SlotReuse ==
  Succeeded =>
    /\ MessageComplete
    /\ call.fn \in DeferredLength =>
         /\ Hdr.header.length = Len(PayloadBytes)
         /\ pos = estimate_size + Len(PayloadBytes)
    /\ call.fn \in FixedLength =>
         pos = Position(write_str(Hdr.s, Sent))

C20_Witness ==
  /\ sends = 2
  /\ pc = "prepared"
  /\ call.fn = "send_table_refs"
  /\ call.arg = << >>
  /\ pos = estimate_size + 1
  /\ buf[pos + 1] = 113
  /\ buf[pos + 8] = 113
  /\ Decoded.v = << >>

====
